---- MODULE Spec2Model ----
(***************************************************************************)
(* stats-util: ingestion of "Daily Fundraiser Summary" modmail reports     *)
(* into the fundraisers table under a last_processed watermark (main), and *)
(* the aggregate queries read from that table (calculate_top_fundraisers,  *)
(* create_daily_totals_chart, create_subreddit_bar_chart).                 *)
(*                                                                         *)
(* Strings are TLA+ strings; the string operations of main.py (strip,      *)
(* split, startswith, int, strptime) are computed character by character.  *)
(***************************************************************************)
EXTENDS Integers, Sequences, FiniteSets, Bags, TLC

VARIABLES
    source,                 \* the modmail conversations of the subreddit, newest first
    fundraisers,            \* table fundraisers, in insertion order
    last_processed,         \* table last_processed: the row of "SnoowyDayFund", or None
    pc,                     \* position of the process in main()
    listing,                \* the conversations the running scan iterates over
    idx,                    \* position of the scan in listing
    last_processed_id,      \* local of main()
    new_last_processed_id,  \* local of main()
    run_start,              \* history: Len(fundraisers) when the run started
    prev_listing,           \* history: listing of the run before, if it completed
    inserts,                \* history: INSERT statements executed per conversation id
    wm_writes,              \* history: writes to last_processed in the current run
    aborts,                 \* history: runs ended by a fatal error
    result                  \* what the last aggregate query returned

vars == <<source, fundraisers, last_processed, pc, listing, idx, last_processed_id,
          new_last_processed_id, run_start, prev_listing, inserts, wm_writes, aborts,
          result>>

None == "<None>"

\* result before any query has run
NoResult == [ran |-> FALSE]

\* ------------------------------------------------------------------ bounds

MaxRecords == 3
MaxAborts == 1
MaxRows == 3

\* ------------------------------------------------------ program constants

DEBUG == FALSE
EXCLUDED_SUBREDDITS ==
    {"FundraisersOnReddit", "fundraisersTests", "SnoowyDayFund", "cedartest",
     "axolotl_playground"}
FUNDRAISERS_APP_USER_ID == "14u2cffx3h"
SUBJECT_MARKER == "Daily Fundraiser Summary"
SUBJECT_SEPARATOR == ": r/"

\* -------------------------------------------------------- string operations

Whitespace == {" ", "\t", "\n", "\r"}
Digits == {"0", "1", "2", "3", "4", "5", "6", "7", "8", "9"}

CharAt(s, i) == SubSeq(s, i, i)

DigitVal(c) ==
    CASE c = "0" -> 0 [] c = "1" -> 1 [] c = "2" -> 2 [] c = "3" -> 3 [] c = "4" -> 4
      [] c = "5" -> 5 [] c = "6" -> 6 [] c = "7" -> 7 [] c = "8" -> 8 [] c = "9" -> 9

\* str.startswith(prefix)
StartsWith(s, prefix) ==
    /\ Len(s) >= Len(prefix)
    /\ SubSeq(s, 1, Len(prefix)) = prefix

RECURSIVE LStripFrom(_, _)
LStripFrom(s, i) ==
    IF i <= Len(s) /\ CharAt(s, i) \in Whitespace THEN LStripFrom(s, i + 1) ELSE i

RECURSIVE RStripFrom(_, _)
RStripFrom(s, j) ==
    IF j >= 1 /\ CharAt(s, j) \in Whitespace THEN RStripFrom(s, j - 1) ELSE j

\* str.strip()
Strip(s) == SubSeq(s, LStripFrom(s, 1), RStripFrom(s, Len(s)))

\* the first position >= i at which sep occurs in s, or 0
RECURSIVE FindFrom(_, _, _)
FindFrom(s, sep, i) ==
    IF i + Len(sep) - 1 > Len(s) THEN 0
    ELSE IF SubSeq(s, i, i + Len(sep) - 1) = sep THEN i
    ELSE FindFrom(s, sep, i + 1)

\* str.split(sep), sep non-empty: the pieces between the non-overlapping
\* occurrences of sep, found left to right
RECURSIVE SplitFrom(_, _, _)
SplitFrom(s, sep, i) ==
    LET k == FindFrom(s, sep, i)
    IN  IF k = 0 THEN <<SubSeq(s, i, Len(s))>>
        ELSE <<SubSeq(s, i, k - 1)>> \o SplitFrom(s, sep, k + Len(sep))

Split(s, sep) == SplitFrom(s, sep, 1)

\* ------------------------------------------------------------------ int()

\* the value of a run of digits and single inner underscores, read left to
\* right from position i with the value acc read so far
RECURSIVE DigitsValue(_, _, _)
DigitsValue(s, i, acc) ==
    IF i > Len(s) THEN acc
    ELSE IF CharAt(s, i) = "_" THEN DigitsValue(s, i + 1, acc)
    ELSE DigitsValue(s, i + 1, acc * 10 + DigitVal(CharAt(s, i)))

\* a decimal literal as int() accepts it: digits, with single underscores
\* only between digits
IsDecimalLiteral(s) ==
    /\ Len(s) >= 1
    /\ \A i \in 1..Len(s) : CharAt(s, i) \in Digits \cup {"_"}
    /\ CharAt(s, 1) # "_"
    /\ CharAt(s, Len(s)) # "_"
    /\ \A i \in 1..(Len(s) - 1) : ~(CharAt(s, i) = "_" /\ CharAt(s, i + 1) = "_")

ValueError == [ok |-> FALSE]

\* int(s): surrounding whitespace is dropped, one sign is allowed
PyInt(s) ==
    LET t == Strip(s)
        signed == Len(t) >= 1 /\ CharAt(t, 1) \in {"+", "-"}
        d == IF signed THEN SubSeq(t, 2, Len(t)) ELSE t
    IN  IF ~IsDecimalLiteral(d) THEN ValueError
        ELSE [ok |-> TRUE,
              val |-> IF signed /\ CharAt(t, 1) = "-"
                      THEN 0 - DigitsValue(d, 1, 0) ELSE DigitsValue(d, 1, 0)]

\* ----------------------------------- datetime.strptime, "%Y-%m-%dT%H:%M:%S.%fZ"

\* how many of the characters of s from position i on are digits, up to maxw
RECURSIVE DigitRun(_, _, _)
DigitRun(s, i, maxw) ==
    IF maxw = 0 \/ i > Len(s) \/ CharAt(s, i) \notin Digits THEN 0
    ELSE 1 + DigitRun(s, i + 1, maxw - 1)

IsLeap(y) == (y % 4 = 0 /\ y % 100 # 0) \/ y % 400 = 0

DaysInMonth(y, m) ==
    IF m = 2 THEN (IF IsLeap(y) THEN 29 ELSE 28)
    ELSE IF m \in {4, 6, 9, 11} THEN 30 ELSE 31

\* a numeric directive at position i: at least minw and at most maxw digits,
\* as many as there are; [ok, val, next]
ReadField(s, i, minw, maxw) ==
    LET n == DigitRun(s, i, maxw)
    IN  IF n < minw THEN [ok |-> FALSE, val |-> 0, next |-> i]
        ELSE [ok |-> TRUE, val |-> DigitsValue(SubSeq(s, i, i + n - 1), 1, 0),
              next |-> i + n]

\* a literal of the format at position i; strptime compiles the format with
\* re.IGNORECASE, so a letter matches in either case
ReadLiteral(s, i, upper, lower) ==
    IF i <= Len(s) /\ CharAt(s, i) \in {upper, lower} THEN i + 1 ELSE 0

\* microseconds of the n digits read for %f: the digits padded right to six
RECURSIVE PadMicros(_, _)
PadMicros(v, n) == IF n >= 6 THEN v ELSE PadMicros(v * 10, n + 1)

\* the datetime, as <<year, month, day, hour, minute, second, microsecond>>
Strptime(s) ==
    LET Y  == ReadField(s, 1, 4, 4)
        p1 == ReadLiteral(s, Y.next, "-", "-")
        M  == ReadField(s, p1, 1, 2)
        p2 == ReadLiteral(s, M.next, "-", "-")
        \* %d also takes a single digit padded with a space
        sp == p2 # 0 /\ p2 <= Len(s) /\ CharAt(s, p2) = " "
        D  == IF sp THEN ReadField(s, p2 + 1, 1, 1) ELSE ReadField(s, p2, 1, 2)
        p3 == ReadLiteral(s, D.next, "T", "t")
        H  == ReadField(s, p3, 1, 2)
        p4 == ReadLiteral(s, H.next, ":", ":")
        Mi == ReadField(s, p4, 1, 2)
        p5 == ReadLiteral(s, Mi.next, ":", ":")
        S  == ReadField(s, p5, 1, 2)
        p6 == ReadLiteral(s, S.next, ".", ".")
        F  == ReadField(s, p6, 1, 6)
        p7 == ReadLiteral(s, F.next, "Z", "z")
    IN  IF /\ Y.ok /\ p1 # 0 /\ M.ok /\ p2 # 0 /\ D.ok /\ p3 # 0 /\ H.ok /\ p4 # 0
           /\ Mi.ok /\ p5 # 0 /\ S.ok /\ p6 # 0 /\ F.ok /\ p7 # 0
           /\ p7 = Len(s) + 1
           /\ Y.val >= 1
           /\ M.val \in 1..12
           /\ D.val \in 1..DaysInMonth(Y.val, M.val)
           /\ H.val \in 0..23 /\ Mi.val \in 0..59 /\ S.val \in 0..59
        THEN [ok |-> TRUE,
              val |-> <<Y.val, M.val, D.val, H.val, Mi.val, S.val,
                        PadMicros(F.val, F.next - p6)>>]
        ELSE ValueError
\* ------------------------------------------- the message parser (main, 72-102)

\* line 82 without the test for the header line
IsDataLine_KeepHeader(line) ==
    /\ Strip(line) # ""
    /\ ~StartsWith(line, "Subreddit:")

\* line 82: the lines of the body that are kept as data lines
IsDataLine(line) ==
    /\ Strip(line) # ""
    /\ ~StartsWith(line, "PostID")
    /\ ~StartsWith(line, "Subreddit:")

\* lines 79-82
DataLines(body_markdown) == SelectSeq(Split(Strip(body_markdown), "\n"), IsDataLine)

\* lines 88-91: one data line; the unpacking of a split that has not exactly
\* four fields, int() and strptime() each raise ValueError
ParseLine(line, subreddit_name) ==
    LET f == Split(line, ",")
    IN  IF Len(f) # 4 THEN ValueError
        ELSE LET raised_int == PyInt(f[3])
                 timestamp_obj == Strptime(f[4])
             IN  IF ~raised_int.ok \/ ~timestamp_obj.ok THEN ValueError
                 ELSE [ok |-> TRUE,
                       val |-> [PostID |-> f[1], FundraiserID |-> f[2],
                                Raised |-> raised_int.val,
                                Timestamp |-> timestamp_obj.val,
                                Subreddit |-> subreddit_name]]

\* lines 85-94 with the try around the loop: the first line that raises ends it
RECURSIVE DataToInsert_StopAtError(_, _)
DataToInsert_StopAtError(data_lines, subreddit_name) ==
    IF data_lines = <<>> THEN <<>>
    ELSE LET r == ParseLine(Head(data_lines), subreddit_name)
         IN  IF r.ok
             THEN <<r.val>> \o DataToInsert_StopAtError(Tail(data_lines), subreddit_name)
             ELSE <<>>

\* lines 85-94: data_to_insert; a line that raises ValueError is skipped
RECURSIVE DataToInsert(_, _)
DataToInsert(data_lines, subreddit_name) ==
    IF data_lines = <<>> THEN <<>>
    ELSE LET r == ParseLine(Head(data_lines), subreddit_name)
         IN  (IF r.ok THEN <<r.val>> ELSE <<>>)
                 \o DataToInsert(Tail(data_lines), subreddit_name)

\* lines 72-102: the rows one message adds to fundraisers
MessageRows(subject, body_markdown) ==
    IF ~StartsWith(subject, SUBJECT_MARKER) THEN <<>>
    ELSE LET pieces == Split(subject, SUBJECT_SEPARATOR)
         IN  IF Len(pieces) < 2 THEN <<>>      \* IndexError: the message is skipped
             ELSE DataToInsert(DataLines(body_markdown), pieces[2])

\* ------------------------------------------------------- the message source

GoodLine1 == "p1,f1,500,2024-01-01T00:00:00.000000Z"
GoodLine2 == "p1,f1,900,2024-01-01T12:00:00.000000Z"

\* what a conversation may hold: subject and first body
Contents ==
    { \* a summary: header, Subreddit: line, blank line, two data lines
      [subject |-> "Daily Fundraiser Summary: r/test",
       body |-> "PostID,FundraiserID,Raised,Timestamp\nSubreddit: test\n\n"
                    \o GoodLine1 \o "\n" \o GoodLine2 \o "\n"],
      \* a summary with a short line, a non-integer Raised, a padded Raised,
      \* a bad timestamp and a line after them
      [subject |-> "Daily Fundraiser Summary: r/other",
       body |-> "p2,f2,700\np2,f2,x,2024-01-02T00:00:00.0Z\n"
                    \o "p2,f2, 300 ,2024-01-02T00:00:00.0Z\n"
                    \o "p2,f2,400,2024-01-02\np3,f1,100,2024-01-02T06:00:00.0Z"],
      \* the marker without the separator
      [subject |-> "Daily Fundraiser Summary for r/test", body |-> GoodLine1],
      \* no marker at the start
      [subject |-> "Re: Daily Fundraiser Summary: r/test", body |-> GoodLine2],
      \* a summary without a valid data line
      [subject |-> "Daily Fundraiser Summary: r/test",
       body |-> "PostID,FundraiserID,Raised,Timestamp\nPostID9,f1,500,2024-01-01T00:00:00.0Z\n"
                    \o "Subreddit:,f1,500,2024-01-01T00:00:00.0Z\n  \n"
                    \o "p1,f1,abc,2024-01-01T00:00:00.0Z"] }

\* what somebody else than the app writes: a copy of a summary, or a reply
OtherContents ==
    {c \in Contents : c.body \in {"PostID,FundraiserID,Raised,Timestamp\nSubreddit: test\n\n"
                                      \o GoodLine1 \o "\n" \o GoodLine2 \o "\n",
                                  GoodLine2}}

\* the conversations that may arrive: authors (the primary author first),
\* subject and first body
Arrivals ==
    {[authors |-> <<FUNDRAISERS_APP_USER_ID>>, subject |-> c.subject, body |-> c.body] :
        c \in Contents}
    \cup
    {[authors |-> <<"2moderator", FUNDRAISERS_APP_USER_ID>>, subject |-> c.subject,
      body |-> c.body] : c \in OtherContents}

ConversationId(n) == "c" \o ToString(n)

\* MessageRows over Contents, computed once
RowsOfContents == {[content |-> c, rows |-> MessageRows(c.subject, c.body)] : c \in Contents}

\* lines 72-102 for a conversation of the source
RowsOf(message) ==
    (CHOOSE e \in RowsOfContents :
        e.content = [subject |-> message.subject, body |-> message.body]).rows

\* ------------------------------------------------------------ main(), 32-109

\* line 66 asking for the app among all authors
PrimaryAuthorTrusted_AnyAuthor(message) ==
    \E i \in 1..Len(message.authors) : message.authors[i] = FUNDRAISERS_APP_USER_ID

\* line 66
PrimaryAuthorTrusted(message) == message.authors[1] = FUNDRAISERS_APP_USER_ID

\* line 68 comparing with the candidate of this run
IsLastProcessed_Candidate(message, wm) == message.id = new_last_processed_id

\* line 68
IsLastProcessed(message, wm) == message.id = wm

\* lines 70-71 without the test for None: every record overwrites the candidate
Candidate_Overwrite(current, id) == id

\* lines 70-71
Candidate(current, id) == IF current = None THEN id ELSE current

\* lines 65-69: the for loop is over, by exhaustion or by break
LoopEnded ==
    \/ idx > Len(listing)
    \/ /\ idx <= Len(listing)
       /\ PrimaryAuthorTrusted(listing[idx])
       /\ IsLastProcessed(listing[idx], last_processed_id)

Init ==
    /\ source = <<>>
    /\ fundraisers = <<>>
    /\ last_processed = None
    /\ pc = "idle"
    /\ listing = <<>>
    /\ idx = 1
    /\ last_processed_id = None
    /\ new_last_processed_id = None
    /\ run_start = 0
    /\ prev_listing = <<>>
    /\ inserts = <<>>
    /\ wm_writes = 0
    /\ aborts = 0
    /\ result = NoResult

\* the app or somebody else opens a conversation: the source gains a record
\* at its front. A run iterates over the listing it fetched when it started
\* (line 65), so an arrival during a scan shows in the next run only and is
\* taken between runs
NewConversation ==
    /\ pc # "scan"
    /\ Len(source) < MaxRecords
    /\ \E c \in Arrivals :
          source' = <<[id |-> ConversationId(Len(source) + 1), authors |-> c.authors,
                       subject |-> c.subject, body |-> c.body]>> \o source
    /\ inserts' = Append(inserts, 0)
    /\ UNCHANGED <<fundraisers, last_processed, pc, listing, idx, last_processed_id,
                   new_last_processed_id, run_start, prev_listing, wm_writes, aborts,
                   result>>

\* lines 33-65: the tables exist, the watermark is read, the listing is asked for
StartRun ==
    /\ pc \in {"idle", "done", "failed"}
    /\ pc' = "scan"
    /\ last_processed_id' = last_processed
    /\ new_last_processed_id' = None
    /\ listing' = source
    /\ idx' = 1
    /\ run_start' = Len(fundraisers)
    /\ prev_listing' = IF pc = "done" THEN <<listing>> ELSE <<>>
    /\ wm_writes' = 0
    /\ UNCHANGED <<source, fundraisers, last_processed, inserts, aborts, result>>

\* the number of the conversation id, for the history variable inserts
RECURSIVE IndexOfId(_, _)
IndexOfId(id, n) == IF n = 0 \/ ConversationId(n) = id THEN n ELSE IndexOfId(id, n - 1)

\* lines 66-102 with the watermark written as soon as the candidate is known
ScanStep_EagerWatermark ==
    /\ pc = "scan"
    /\ ~LoopEnded
    /\ LET message == listing[idx]
           rows == RowsOf(message)
       IN  IF ~PrimaryAuthorTrusted(message)
           THEN UNCHANGED <<new_last_processed_id, fundraisers, inserts, last_processed>>
           ELSE /\ new_last_processed_id' = Candidate(new_last_processed_id, message.id)
                /\ last_processed' = new_last_processed_id'
                /\ fundraisers' = fundraisers \o rows
                /\ inserts' = IF rows = <<>> THEN inserts
                              ELSE LET k == IndexOfId(message.id, Len(inserts))
                                   IN  [inserts EXCEPT ![k] = @ + 1]
    /\ idx' = idx + 1
    /\ UNCHANGED <<source, pc, listing, last_processed_id, run_start,
                   prev_listing, wm_writes, aborts, result>>

\* lines 66-102: one pass of the loop body
ScanStep ==
    /\ pc = "scan"
    /\ ~LoopEnded
    /\ LET message == listing[idx]
           rows == RowsOf(message)
       IN  IF ~PrimaryAuthorTrusted(message)
           THEN UNCHANGED <<new_last_processed_id, fundraisers, inserts>>
           ELSE /\ new_last_processed_id' = Candidate(new_last_processed_id, message.id)
                /\ fundraisers' = fundraisers \o rows
                /\ inserts' = IF rows = <<>> THEN inserts
                              ELSE LET k == IndexOfId(message.id, Len(inserts))
                                   IN  [inserts EXCEPT ![k] = @ + 1]
    /\ idx' = idx + 1
    /\ UNCHANGED <<source, last_processed, pc, listing, last_processed_id, run_start,
                   prev_listing, wm_writes, aborts, result>>

\* lines 104-109, after the loop
FinishRun ==
    /\ pc = "scan"
    /\ LoopEnded
    /\ pc' = "done"
    /\ IF new_last_processed_id # None /\ new_last_processed_id # ""
       THEN /\ last_processed' = new_last_processed_id
            /\ wm_writes' = wm_writes + 1
       ELSE UNCHANGED <<last_processed, wm_writes>>
    /\ UNCHANGED <<source, fundraisers, listing, idx, last_processed_id,
                   new_last_processed_id, run_start, prev_listing, inserts, aborts,
                   result>>

\* the source or the store raises in the middle of the scan: the exception
\* leaves main(), every statement executed so far stays committed
FatalError ==
    /\ pc = "scan"
    /\ aborts < MaxAborts
    /\ pc' = "failed"
    /\ aborts' = aborts + 1
    /\ UNCHANGED <<source, fundraisers, last_processed, listing, idx, last_processed_id,
                   new_last_processed_id, run_start, prev_listing, inserts, wm_writes,
                   result>>

Next == NewConversation \/ StartRun \/ ScanStep \/ FinishRun \/ FatalError

Spec == Init /\ [][Next]_vars
\* ------------------------------------------- the aggregate queries, 111-194

\* the WHERE clause of every query: ? OR Subreddit NOT IN (SELECT unnest(?))
Included(row) == DEBUG \/ row.Subreddit \notin EXCLUDED_SUBREDDITS

\* DATE_TRUNC('day', Timestamp)
DateTrunc(ts) == <<ts[1], ts[2], ts[3], 0, 0, 0, 0>>

\* the order of TIMESTAMP values
RECURSIVE TsLessFrom(_, _, _)
TsLessFrom(a, b, i) ==
    IF i > Len(a) THEN FALSE
    ELSE IF a[i] # b[i] THEN a[i] < b[i]
    ELSE TsLessFrom(a, b, i + 1)

TsLess(a, b) == TsLessFrom(a, b, 1)

\* x / 100.0 of a non-negative number of cents, as <<units, hundredths>>
Dollars(cents) == <<cents \div 100, cents % 100>>

\* PARTITION BY FundraiserID, DATE_TRUNC('day', Timestamp): the partition of
\* every row of t
DayPartition(t) == [i \in 1..Len(t) |-> <<t[i].FundraiserID, DateTrunc(t[i].Timestamp)>>]

\* PARTITION BY FundraiserID
FundraiserPartition(t) == [i \in 1..Len(t) |-> <<t[i].FundraiserID>>]

\* the positions of table t the CTE of a query reads
IncludedRows(t) == {i \in 1..Len(t) : Included(t[i])}

\* ROW_NUMBER() OVER (PARTITION BY ... ORDER BY Timestamp DESC) = 1: the sets
\* of positions that may carry rn = 1: one position of each partition, none
\* of its partition later than it; among equal timestamps the engine is free
RowNumberOne(t, partition) ==
    {K \in SUBSET IncludedRows(t) :
        /\ \A i \in IncludedRows(t) :
              Cardinality({k \in K : partition[k] = partition[i]}) = 1
        /\ \A k \in K : \A i \in IncludedRows(t) :
              partition[i] = partition[k] => ~TsLess(t[k].Timestamp, t[i].Timestamp)}

\* lines 115, 135 without WHERE rn = 1: every included row is kept
LatestDaily_NoDedup(t) == {IncludedRows(t)}

\* lines 115, 135: rn = 1 in latest_daily_fundraiser
LatestDaily(t) == RowNumberOne(t, DayPartition(t))

\* line 184 with the partition of the daily queries
LatestOverall_PerDay(t) == RowNumberOne(t, DayPartition(t))

\* line 184: rn = 1 in latest_fundraiser
LatestOverall(t) == RowNumberOne(t, FundraiserPartition(t))

RECURSIVE SumRaised(_, _)
SumRaised(t, K) ==
    IF K = {} THEN 0
    ELSE LET i == CHOOSE i \in K : TRUE
         IN  t[i].Raised + SumRaised(t, K \ {i})

\* SUM(Raised) in the place of MAX(Raised)
MaxRaised_Sum(t, K) == SumRaised(t, K)

\* MAX(Raised) over the positions K
MaxRaised(t, K) == CHOOSE m \in {t[i].Raised : i \in K} : \A i \in K : t[i].Raised <= m

\* ORDER BY amount DESC of a set of result rows: every order the engine may
\* return, rows of equal amount in any order
OrdersDescending(rows, amount) ==
    {p \in [1..Cardinality(rows) -> rows] :
        /\ \A i, j \in 1..Cardinality(rows) : i # j => p[i] # p[j]
        /\ \A i, j \in 1..Cardinality(rows) : i < j => amount[p[i]] >= amount[p[j]]}

\* the order of the amounts x / 100.0
CentsOf(amount) == amount[1] * 100 + amount[2]

\* LIMIT n
Limit(seq, n) == SubSeq(seq, 1, IF Len(seq) < n THEN Len(seq) ELSE n)

\* line 111: limit=10
DefaultLimit == 10

\* lines 119-124 over the rows K with rn = 1: the results calculate_top_fundraisers
\* may fetch
TopFundraisers(t, K, limit) ==
    LET groups == {<<t[i].FundraiserID, t[i].Subreddit>> : i \in K}
        rows == {[FundraiserID |-> g[1],
                  MaxRaised |-> Dollars(MaxRaised(t, {i \in K :
                                   <<t[i].FundraiserID, t[i].Subreddit>> = g})),
                  Subreddit |-> g[2]] : g \in groups}
    IN  {Limit(p, limit) : p \in OrdersDescending(rows, [r \in rows |-> CentsOf(r.MaxRaised)])}

\* lines 139-143 over the rows K with rn = 1: ORDER BY Date
DailyTotals(t, K) ==
    LET dates == {DateTrunc(t[i].Timestamp) : i \in K}
        Nth(n) == CHOOSE d \in dates : Cardinality({e \in dates : TsLess(e, d)}) = n - 1
    IN  [n \in 1..Cardinality(dates) |->
            [Date |-> Nth(n),
             DailyTotal |-> Dollars(SumRaised(t, {i \in K :
                                DateTrunc(t[i].Timestamp) = Nth(n)}))]]

\* lines 188-192 over the rows K with rn = 1: the results
\* create_subreddit_bar_chart may fetch
SubredditTotals(t, K) ==
    LET rows == {[Subreddit |-> s,
                  TotalRaised |-> Dollars(SumRaised(t, {i \in K : t[i].Subreddit = s}))] :
                     s \in {t[i].Subreddit : i \in K}}
    IN  OrdersDescending(rows, [r \in rows |-> CentsOf(r.TotalRaised)])

\* lines 287-291: the three queries of run_stats_suite over the table; each
\* query numbers the rows on its own
RunStatsSuite ==
    /\ \E kt \in LatestDaily(fundraisers), kd \in LatestDaily(fundraisers),
          ks \in LatestOverall(fundraisers) :
          \E top \in TopFundraisers(fundraisers, kt, DefaultLimit),
             sub \in SubredditTotals(fundraisers, ks) :
             result' = [ran |-> TRUE,
                        top_rn1 |-> kt,
                        top |-> top,
                        daily |-> DailyTotals(fundraisers, kd),
                        subreddits |-> sub]
    /\ UNCHANGED <<source, fundraisers, last_processed, pc, listing, idx,
                   last_processed_id, new_last_processed_id, run_start, prev_listing,
                   inserts, wm_writes, aborts>>

\* the observations the queries are checked on
T1 == <<2024, 1, 1, 0, 0, 0, 0>>
T2 == <<2024, 1, 1, 12, 0, 0, 0>>
T3 == <<2024, 1, 2, 0, 0, 0, 0>>

Observations ==
    <<[PostID |-> "p1", FundraiserID |-> "f1", Raised |-> 500, Timestamp |-> T1, Subreddit |-> "test"],
      [PostID |-> "p1", FundraiserID |-> "f1", Raised |-> 900, Timestamp |-> T2, Subreddit |-> "test"],
      [PostID |-> "p1", FundraiserID |-> "f1", Raised |-> 500, Timestamp |-> T2, Subreddit |-> "test"],
      [PostID |-> "p1", FundraiserID |-> "f1", Raised |-> 700, Timestamp |-> T3, Subreddit |-> "test"],
      [PostID |-> "p1", FundraiserID |-> "f1", Raised |-> 900, Timestamp |-> T3, Subreddit |-> "other"],
      [PostID |-> "p1", FundraiserID |-> "f1", Raised |-> 900, Timestamp |-> T3, Subreddit |-> "SnoowyDayFund"],
      [PostID |-> "p2", FundraiserID |-> "f2", Raised |-> 500, Timestamp |-> T1, Subreddit |-> "test"],
      [PostID |-> "p2", FundraiserID |-> "f2", Raised |-> 300, Timestamp |-> T2, Subreddit |-> "other"],
      [PostID |-> "p2", FundraiserID |-> "f2", Raised |-> 700, Timestamp |-> T3, Subreddit |-> "other"],
      [PostID |-> "p2", FundraiserID |-> "f2", Raised |-> 900, Timestamp |-> T2, Subreddit |-> "cedartest"],
      [PostID |-> "p3", FundraiserID |-> "f3", Raised |-> 500, Timestamp |-> T1, Subreddit |-> "other"],
      [PostID |-> "p3", FundraiserID |-> "f3", Raised |-> 100, Timestamp |-> T3, Subreddit |-> "test"]>>

\* the tables of up to MaxRows observations; no query reads the position of
\* a row, so each multiset of observations is taken in one order
Tables ==
    UNION {{[i \in 1..n |-> Observations[f[i]]] :
               f \in {g \in [1..n -> 1..Len(Observations)] :
                         \A i \in 1..(n - 1) : g[i] <= g[i + 1]}} : n \in 0..MaxRows}

InitQ ==
    /\ fundraisers \in Tables
    /\ source = <<>>
    /\ last_processed = None
    /\ pc = "idle"
    /\ listing = <<>>
    /\ idx = 1
    /\ last_processed_id = None
    /\ new_last_processed_id = None
    /\ run_start = 0
    /\ prev_listing = <<>>
    /\ inserts = <<>>
    /\ wm_writes = 0
    /\ aborts = 0
    /\ result = NoResult

NextQ == RunStatsSuite

SpecQ == InitQ /\ [][NextQ]_vars

\* ------------------------------------------------- what the claims speak of

\* The rows a summary is to yield, stated from the text of the body: one per
\* line that is not blank, does not start with "PostID" or "Subreddit:", has
\* exactly four comma-separated fields, an integer third field and a fourth
\* field in the timestamp format, tagged with the name after the separator.
LineIsWellFormed(line) ==
    /\ \E i \in 1..Len(line) : CharAt(line, i) \notin Whitespace
    /\ ~(Len(line) >= 6 /\ SubSeq(line, 1, 6) = "PostID")
    /\ ~(Len(line) >= 10 /\ SubSeq(line, 1, 10) = "Subreddit:")
    /\ Len(Split(line, ",")) = 4
    /\ PyInt(Split(line, ",")[3]).ok
    /\ Strptime(Split(line, ",")[4]).ok

SubjectHasMarker(subject) ==
    Len(subject) >= 24 /\ SubSeq(subject, 1, 24) = "Daily Fundraiser Summary"

SeparatorAt(subject, i) == i + 3 <= Len(subject) /\ SubSeq(subject, i, i + 3) = ": r/"

\* the part of the subject between its first separator and the next one
NameInSubject(subject) ==
    LET first == CHOOSE i \in 1..Len(subject) :
                    SeparatorAt(subject, i) /\ \A j \in 1..(i - 1) : ~SeparatorAt(subject, j)
        later == {j \in (first + 4)..Len(subject) : SeparatorAt(subject, j)}
        last  == IF later = {} THEN Len(subject)
                 ELSE (CHOOSE j \in later : \A k \in later : j <= k) - 1
    IN  SubSeq(subject, first + 4, last)

ExpectedRows(c) ==
    IF ~SubjectHasMarker(c.subject) \/ ~\E i \in 1..Len(c.subject) : SeparatorAt(c.subject, i)
    THEN <<>>
    ELSE LET lines == Split(Strip(c.body), "\n")
             good == {i \in 1..Len(lines) : LineIsWellFormed(lines[i])}
             Nth(k) == CHOOSE i \in good : Cardinality({j \in good : j < i}) = k - 1
         IN  [k \in 1..Cardinality(good) |->
                 LET f == Split(lines[Nth(k)], ",")
                 IN  [PostID |-> f[1], FundraiserID |-> f[2], Raised |-> PyInt(f[3]).val,
                      Timestamp |-> Strptime(f[4]).val,
                      Subreddit |-> NameInSubject(c.subject)]]

ExpectedOfContents == {[content |-> c, rows |-> ExpectedRows(c)] : c \in Contents}

Expected(message) ==
    (CHOOSE e \in ExpectedOfContents :
        e.content = [subject |-> message.subject, body |-> message.body]).rows

FromApp(message) == message.authors[1] = "14u2cffx3h"

\* where a scan of l under the watermark wm stops: at the first record of the
\* app that carries the watermark's id, or behind the last record
StopIndex(l, wm) ==
    LET hits == {i \in 1..Len(l) : FromApp(l[i]) /\ l[i].id = wm}
    IN  IF hits = {} THEN Len(l) + 1 ELSE CHOOSE i \in hits : \A j \in hits : i <= j

\* the records of the app a scan of l under wm passes
Qualifying(l, wm) == {i \in 1..(StopIndex(l, wm) - 1) : FromApp(l[i])}

FirstOf(S) == CHOOSE i \in S : \A j \in S : i <= j

\* the rows the current run has inserted
RowsOfRun == SubSeq(fundraisers, run_start + 1, Len(fundraisers))

\* the rows the records i..n of l are to yield, in the order of l
RECURSIVE ExpectedFrom(_, _, _)
ExpectedFrom(l, i, n) ==
    IF i > n THEN <<>>
    ELSE (IF FromApp(l[i]) THEN Expected(l[i]) ELSE <<>>) \o ExpectedFrom(l, i + 1, n)

CountIn(row, seq) == Cardinality({i \in 1..Len(seq) : seq[i] = row})

Range(seq) == {seq[i] : i \in 1..Len(seq)}

\* C1: a run over the listing the completed run before it went over inserts
\* no row and leaves the watermark as it was.
C1_IdempotentReingestion ==
    prev_listing = <<listing>> =>
        /\ Len(fundraisers) = run_start
        /\ last_processed = last_processed_id

C1_Witness ==
    /\ pc = "done"
    /\ prev_listing = <<listing>>
    /\ Len(listing) >= 2
    /\ \E i \in 1..Len(listing) : ~FromApp(listing[i])
    /\ \E i \in 1..Len(listing) : FromApp(listing[i]) /\ Expected(listing[i]) # <<>>
    /\ last_processed # None

\* C2: after a completed run the watermark is the id of the most recent
\* record of the app the scan passed, whatever its subject and rows; without
\* such a record it is what it was before the run.
C2_WatermarkAfterRun ==
    pc = "done" =>
        LET q == Qualifying(listing, last_processed_id)
        IN  IF q # {} THEN last_processed = listing[FirstOf(q)].id
            ELSE last_processed = last_processed_id

C2_Witness ==
    /\ pc = "done"
    /\ last_processed_id # None
    /\ Cardinality(Qualifying(listing, last_processed_id)) >= 2
    /\ Expected(listing[FirstOf(Qualifying(listing, last_processed_id))]) = <<>>
    /\ last_processed = listing[FirstOf(Qualifying(listing, last_processed_id))].id

\* C3: in every state the watermark, if there is one, is the id of a record
\* of the source, and the table holds the rows of that record and of every
\* older record of the app.
C3_WatermarkFullyIngested ==
    last_processed # None =>
        \E k \in 1..Len(source) :
            /\ source[k].id = last_processed
            /\ \A row \in Range(ExpectedFrom(source, k, Len(source))) :
                  CountIn(row, fundraisers)
                      >= CountIn(row, ExpectedFrom(source, k, Len(source)))

C3_Witness ==
    /\ pc = "failed"
    /\ last_processed # None
    /\ Len(source) >= 3
    /\ source[Len(source)].id # last_processed
    /\ Expected(source[Len(source)]) # <<>>
    /\ FromApp(source[1]) /\ source[1].id # last_processed
    /\ idx > 1
    /\ Len(fundraisers) > run_start

\* C4: the rows of one conversation are inserted at most once, over completed
\* and aborted runs.
C4_InsertedAtMostOnce == \A k \in 1..Len(inserts) : inserts[k] <= 1

HasFormatError(message) ==
    \/ /\ SubjectHasMarker(message.subject)
       /\ ~\E i \in 1..Len(message.subject) : SeparatorAt(message.subject, i)
    \/ \E line \in Range(Split(Strip(message.body), "\n")) :
          /\ \E i \in 1..Len(line) : CharAt(line, i) \notin Whitespace
          /\ ~(Len(line) >= 6 /\ SubSeq(line, 1, 6) = "PostID")
          /\ ~(Len(line) >= 10 /\ SubSeq(line, 1, 10) = "Subreddit:")
          /\ ~LineIsWellFormed(line)

\* C6: the scan can always go on, and a completed run has inserted, in order,
\* every well-formed line of every record of the app it passed, and has
\* written the watermark once if it passed such a record.
C6_FormatErrorsContained ==
    /\ pc = "scan" => ENABLED (ScanStep \/ FinishRun)
    /\ pc = "done" =>
          /\ RowsOfRun = ExpectedFrom(listing, 1, StopIndex(listing, last_processed_id) - 1)
          /\ wm_writes = IF Qualifying(listing, last_processed_id) # {} THEN 1 ELSE 0

C6_Witness ==
    /\ pc = "done"
    /\ Len(listing) >= 3
    /\ StopIndex(listing, last_processed_id) > Len(listing)
    /\ \A i \in 1..Len(listing) : FromApp(listing[i])
    /\ SubjectHasMarker(listing[1].subject) /\ Expected(listing[1]) = <<>>
    /\ HasFormatError(listing[1])
    /\ HasFormatError(listing[2]) /\ Len(Expected(listing[2])) = 2
    /\ ~HasFormatError(listing[3]) /\ Len(Expected(listing[3])) = 2
    /\ Len(RowsOfRun) = 4
    /\ wm_writes = 1

\* C9: a step of the scan at a record of the app appends exactly the rows
\* its subject and body are to yield.
C9_ParserOutput ==
    [][(pc = "scan" /\ pc' = "scan" /\ idx' = idx + 1 /\ FromApp(listing[idx])) =>
           fundraisers' = fundraisers \o Expected(listing[idx])]_vars

C9_Witness ==
    /\ pc = "scan"
    /\ idx = 2
    /\ FromApp(listing[1])
    /\ listing[1].subject = "Daily Fundraiser Summary: r/test"
    /\ Len(Split(Strip(listing[1].body), "\n")) = 5
    /\ fundraisers =
          <<[PostID |-> "p1", FundraiserID |-> "f1", Raised |-> 500,
             Timestamp |-> <<2024, 1, 1, 0, 0, 0, 0>>, Subreddit |-> "test"],
            [PostID |-> "p1", FundraiserID |-> "f1", Raised |-> 900,
             Timestamp |-> <<2024, 1, 1, 12, 0, 0, 0>>, Subreddit |-> "test"]>>
\* the positions of the table whose subreddit is not an excluded one
Counted(t) == {i \in 1..Len(t) : t[i].Subreddit \notin EXCLUDED_SUBREDDITS}

DayOf(ts) == <<ts[1], ts[2], ts[3]>>

\* position i holds a latest observation of its fundraiser on its day
LatestOfDay(t, i) ==
    /\ i \in Counted(t)
    /\ \A j \in Counted(t) :
          (t[j].FundraiserID = t[i].FundraiserID /\ DayOf(t[j].Timestamp) = DayOf(t[i].Timestamp))
              => ~TsLess(t[i].Timestamp, t[j].Timestamp)

\* position i holds a latest observation of its fundraiser
LatestOfAll(t, i) ==
    /\ i \in Counted(t)
    /\ \A j \in Counted(t) :
          t[j].FundraiserID = t[i].FundraiserID => ~TsLess(t[i].Timestamp, t[j].Timestamp)

RECURSIVE SumOver(_, _)
SumOver(f, S) ==
    IF S = {} THEN 0 ELSE LET x == CHOOSE x \in S : TRUE IN f[x] + SumOver(f, S \ {x})

\* the totals day d may show: one latest-of-day amount of every fundraiser
\* observed on d, added up
DaySums(t, d) ==
    LET fs == {t[i].FundraiserID : i \in {j \in Counted(t) : DayOf(t[j].Timestamp) = d}}
        latest(f) == {t[i].Raised : i \in {j \in Counted(t) :
                         /\ t[j].FundraiserID = f
                         /\ DayOf(t[j].Timestamp) = d
                         /\ LatestOfDay(t, j)}}
    IN  {SumOver(c, fs) : c \in {c \in [fs -> {t[i].Raised : i \in 1..Len(t)}] :
                                    \A f \in fs : c[f] \in latest(f)}}

\* C7: Daily Totals lists every day that has a counted observation, once,
\* with the sum of one latest-of-day amount per fundraiser observed that
\* day; every amount Top Fundraisers reports is that of a latest-of-day
\* observation of the reported fundraiser and subreddit.
C7_DedupLatestPerDay ==
    result.ran =>
        /\ {DayOf(result.daily[n].Date) : n \in 1..Len(result.daily)}
              = {DayOf(fundraisers[i].Timestamp) : i \in Counted(fundraisers)}
        /\ Len(result.daily)
              = Cardinality({DayOf(fundraisers[i].Timestamp) : i \in Counted(fundraisers)})
        /\ \A n \in 1..Len(result.daily) :
              \E sum \in DaySums(fundraisers, DayOf(result.daily[n].Date)) :
                 result.daily[n].DailyTotal = <<sum \div 100, sum % 100>>
        /\ \A n \in 1..Len(result.top) :
              \E i \in 1..Len(fundraisers) :
                 /\ LatestOfDay(fundraisers, i)
                 /\ fundraisers[i].FundraiserID = result.top[n].FundraiserID
                 /\ fundraisers[i].Subreddit = result.top[n].Subreddit
                 /\ result.top[n].MaxRaised
                       = <<fundraisers[i].Raised \div 100, fundraisers[i].Raised % 100>>

C7_Witness ==
    /\ result.ran
    /\ fundraisers =
          <<[PostID |-> "p1", FundraiserID |-> "f1", Raised |-> 500, Timestamp |-> T1,
             Subreddit |-> "test"],
            [PostID |-> "p1", FundraiserID |-> "f1", Raised |-> 900, Timestamp |-> T2,
             Subreddit |-> "test"]>>
    /\ result.daily = <<[Date |-> <<2024, 1, 1, 0, 0, 0, 0>>, DailyTotal |-> <<9, 0>>]>>
    /\ result.top = <<[FundraiserID |-> "f1", MaxRaised |-> <<9, 0>>, Subreddit |-> "test"]>>

\* no two counted observations of one fundraiser carry the same timestamp
DistinctTimestamps(t) ==
    \A i, j \in Counted(t) :
        (i # j /\ t[i].FundraiserID = t[j].FundraiserID) => t[i].Timestamp # t[j].Timestamp

\* the cents subreddit s is to show: the latest amount of every fundraiser
\* whose latest observation carries s
LatestTotal(t, s) ==
    LET mine == {i \in Counted(t) : LatestOfAll(t, i) /\ t[i].Subreddit = s}
    IN  SumOver([i \in mine |-> t[i].Raised], mine)

\* C8: with distinct timestamps per fundraiser, Subreddit Totals lists the
\* subreddits of the fundraisers' latest observations, each once, largest
\* total first, with the sum of those latest amounts.
C8_DedupLatestOverall ==
    (result.ran /\ DistinctTimestamps(fundraisers)) =>
        LET subs == {fundraisers[i].Subreddit :
                        i \in {j \in Counted(fundraisers) : LatestOfAll(fundraisers, j)}}
        IN  /\ Len(result.subreddits) = Cardinality(subs)
            /\ {result.subreddits[n].Subreddit : n \in 1..Len(result.subreddits)} = subs
            /\ \A n \in 1..Len(result.subreddits) :
                  result.subreddits[n].TotalRaised
                      = <<LatestTotal(fundraisers, result.subreddits[n].Subreddit) \div 100,
                          LatestTotal(fundraisers, result.subreddits[n].Subreddit) % 100>>
            /\ \A n \in 1..(Len(result.subreddits) - 1) :
                  LatestTotal(fundraisers, result.subreddits[n].Subreddit)
                      >= LatestTotal(fundraisers, result.subreddits[n + 1].Subreddit)

C8_Witness ==
    /\ result.ran
    /\ fundraisers =
          <<[PostID |-> "p1", FundraiserID |-> "f1", Raised |-> 500, Timestamp |-> T1,
             Subreddit |-> "test"],
            [PostID |-> "p1", FundraiserID |-> "f1", Raised |-> 900, Timestamp |-> T2,
             Subreddit |-> "test"]>>
    /\ result.subreddits = <<[Subreddit |-> "test", TotalRaised |-> <<9, 0>>]>>

\* the rows with rn = 1 of Top Fundraisers that fall into the group of a
\* reported row
SurvivorsOf(r) ==
    {k \in result.top_rn1 :
        /\ fundraisers[k].FundraiserID = r.FundraiserID
        /\ fundraisers[k].Subreddit = r.Subreddit}

\* C10 as claimed: after Dedup A one row at most is left in each
\* (FundraiserID, Subreddit) group of Top Fundraisers, and the reported
\* amount is that row's.
C10_OneRowPerGroup ==
    result.ran =>
        \A n \in 1..Len(result.top) :
            /\ Cardinality(SurvivorsOf(result.top[n])) <= 1
            /\ \A k \in SurvivorsOf(result.top[n]) :
                  result.top[n].MaxRaised
                      = <<fundraisers[k].Raised \div 100, fundraisers[k].Raised % 100>>

\* C10 as amended: after Dedup A one row is left for each (FundraiserID,
\* calendar day); a (FundraiserID, Subreddit) group holds one such row per
\* day the fundraiser was last seen in that subreddit, and the reported
\* amount is the largest of them.
C10_MaxOverDays ==
    result.ran =>
        /\ \A k1, k2 \in result.top_rn1 :
              (/\ fundraisers[k1].FundraiserID = fundraisers[k2].FundraiserID
               /\ DayOf(fundraisers[k1].Timestamp) = DayOf(fundraisers[k2].Timestamp))
                  => k1 = k2
        /\ \A n \in 1..Len(result.top) :
              /\ \E k \in SurvivorsOf(result.top[n]) :
                    result.top[n].MaxRaised
                        = <<fundraisers[k].Raised \div 100, fundraisers[k].Raised % 100>>
              /\ \A k \in SurvivorsOf(result.top[n]) :
                    result.top[n].MaxRaised[1] * 100 + result.top[n].MaxRaised[2]
                        >= fundraisers[k].Raised

C10_Witness ==
    /\ result.ran
    /\ fundraisers =
          <<[PostID |-> "p1", FundraiserID |-> "f1", Raised |-> 900, Timestamp |-> T2,
             Subreddit |-> "test"],
            [PostID |-> "p1", FundraiserID |-> "f1", Raised |-> 700, Timestamp |-> T3,
             Subreddit |-> "test"]>>
    /\ result.top_rn1 = {1, 2}
    /\ result.top = <<[FundraiserID |-> "f1", MaxRaised |-> <<9, 0>>, Subreddit |-> "test"]>>
====
